---- MODULE Spec2Model ----
(***************************************************************************)
(* Model of app.py (GUI mode): LlmGuiApp, ConfigWindow.save_config and the *)
(* background function embed_files_threaded with its thread pool (Spec,    *)
(* and FairSpec with fair scheduling of the threads); the directory walk   *)
(* on its own over several trees (SpecWalk); and embed_files_cli, the      *)
(* sequential upload of CLI mode (SpecCli).                                *)
(*                                                                         *)
(* Text is a sequence of one-character strings, so that str.strip() is an  *)
(* operation and not the identity.  A file path is the sequence of its     *)
(* components.  The main (Tk) thread runs one handler at a time; every     *)
(* embedding thread and every pool worker advances one statement (or one   *)
(* bytecode of `count += 1') at a time, interleaved with everything else.  *)
(***************************************************************************)
EXTENDS Integers, Sequences, FiniteSets, TLC

\* ---------------------------------------------------------------- bounds
MaxThreads == 2     \* embedding threads alive at the same time
MaxWorkers == 2     \* worker threads of the ThreadPoolExecutor
MaxSaves == 1       \* ConfigWindow "Save" clicks in one behaviour

\* ------------------------------------------------------------ environment
\* Command-line (url, token) pairs handed to run_gui_mode.
ArgPairs == { <<<<" ", "u">>, <<"t">>>> }
\* What the user may have typed in the two entries of a ConfigWindow.
EntryUrls == { <<>>, <<"v", " ">> }
EntryTokens == { <<"s">> }
\* Answers of filedialog.askdirectory ("" = dialog cancelled).
Folders == { "", "/d" }

\* The directory tree below /d:  /d/a/g  /d/b/a/h
\* and the one below /e:  /e/f  /e/a/g  /e/a/h  /e/a/b/g  /e/b/c  /e/b/a/h  /e/c/
\* (/e/b/c is a file, /e/c an empty directory),
\* and the one below /f:  /f/a/a/g  /f/b/c/a/h  /f/c/h
ListDirs(d) ==
    CASE d = <<"/d">> -> <<"a", "b">>
      [] d = <<"/d", "b">> -> <<"a">>
      [] d = <<"/e">> -> <<"a", "b", "c">>
      [] d = <<"/e", "a">> -> <<"b">>
      [] d = <<"/e", "b">> -> <<"a">>
      [] d = <<"/f">> -> <<"a", "b", "c">>
      [] d = <<"/f", "a">> -> <<"a">>
      [] d = <<"/f", "b">> -> <<"c">>
      [] d = <<"/f", "b", "c">> -> <<"a">>
      [] OTHER -> <<>>

ListFiles(d) ==
    CASE d = <<"/d", "a">> -> <<"g">>
      [] d = <<"/d", "b", "a">> -> <<"h">>
      [] d = <<"/e">> -> <<"f">>
      [] d = <<"/e", "a">> -> <<"g", "h">>
      [] d = <<"/e", "a", "b">> -> <<"g">>
      [] d = <<"/e", "b">> -> <<"c">>
      [] d = <<"/e", "b", "a">> -> <<"h">>
      [] d = <<"/f", "a", "a">> -> <<"g">>
      [] d = <<"/f", "b", "c", "a">> -> <<"h">>
      [] d = <<"/f", "c">> -> <<"h">>
      [] OTHER -> <<>>

\* Directories a walk may be started on, and the names an ignore list may hold.
WalkRoots == { "/d", "/e", "/f" }
DirNames == <<"a", "b", "c">>

\* What one attempt of upload_file can meet after its stop check: open() or read()
\* raises, requests.post raises, or a response comes back with its status.
Outcomes == { "read_exc", "post_exc", "status_200", "status_500" }

\* requests.post sends nothing to an empty URL: it raises.
Sendable(cfg) == cfg.api_url # <<>>

\* ---------------------------------------------------------------- helpers
RECURSIVE LStrip(_)
LStrip(s) == IF s # <<>> /\ Head(s) = " " THEN LStrip(Tail(s)) ELSE s

RECURSIVE RStrip(_)
RStrip(s) ==
    IF s # <<>> /\ s[Len(s)] = " " THEN RStrip(SubSeq(s, 1, Len(s) - 1)) ELSE s

\* str.strip()
Strip(s) == RStrip(LStrip(s))

\* Config.__init__
Config(url, token) == [api_url |-> url, api_token |-> token]

\* Config.is_valid
is_valid(cfg) == Strip(cfg.api_url) # <<>> /\ Strip(cfg.api_token) # <<>>

InSeq(x, s) == \E i \in DOMAIN s : s[i] = x

\* [seq[i] for i in sel], sel in increasing order
Pick(seq, sel) ==
    LET F[i \in 0..Len(seq)] ==
            IF i = 0 THEN <<>>
            ELSE IF i \in sel THEN Append(F[i - 1], seq[i]) ELSE F[i - 1]
    IN  F[Len(seq)]

\* the comprehension of line 445 without its condition
Prune_KeepAll(dirs, ignored) == dirs

\* [d for d in dirs if d not in ignored_dirs]
Prune(dirs, ignored) == SelectSeq(dirs, LAMBDA d : ~InSeq(d, ignored))

\* the directories os.walk visits next, after the body pruned dirs in place
Children(root, dirs) == [i \in 1..Len(dirs) |-> Append(root, dirs[i])]

\* ttk Progressbar.step() in determinate mode: value wraps at maximum
StepValue(value, maximum) == (value + 1) % maximum

\* ------------------------------------------------------------------ state
VARIABLES
    app_config,             \* the Config object shared by every window
    base_dir, subdirs, ignored_dirs,
    embedding_in_progress, stop_requested,
    stop_btn,               \* state of the "Stop Embedding" button
    embedding_thread,       \* "None", or "Thread" once a thread object was stored
    progress_bar,           \* [value, maximum, style]
    thr,                    \* the embedding threads alive, oldest first: their frames
    nsaves                  \* "Save" clicks so far

vars == << app_config, base_dir, subdirs, ignored_dirs, embedding_in_progress,
           stop_requested, stop_btn, embedding_thread, progress_bar, thr, nsaves >>

gui == << base_dir, subdirs, ignored_dirs, embedding_in_progress,
          stop_requested, stop_btn, embedding_thread, progress_bar >>

NoLog == [msg |-> "none", success |-> 0, fail |-> 0]

\* The frame of embed_files_threaded with nothing in it yet.
NoThread ==
    [ pc |-> "idle",
      base_dir |-> "", ignored_dirs |-> <<>>,          \* arguments
      walk |-> <<>>, root |-> <<>>, files |-> <<>>,    \* os.walk and its loop variables
      all_files |-> <<>>, total_files |-> 0,
      success_count |-> 0, fail_count |-> 0,
      tasks |-> <<>>,                                  \* one future per submitted file
      yielded |-> 0,                                   \* futures as_completed has yielded
      steps |-> 0,                                     \* progress_bar.step() calls
      start_cfg |-> Config(<<>>, <<>>),                \* app_config when start_embedding ran
      stop_accepted |-> FALSE,                         \* a stop_embedding of this run got past line 423
      term |-> NoLog,                                  \* the terminal log message
      dialog |-> "none" ]                              \* the terminal messagebox

\* One call upload_file(fp) handed to the pool.  cause, post and tmp belong to the
\* call in progress and are gone when it returns; result and log are what it left.
NewTask(fp) ==
    [ fpath |-> fp,
      st |-> "queued",
      late |-> FALSE,       \* the run's stop had been requested when the call began
      cause |-> "none",     \* what the attempt met: an element of Outcomes
      post |-> "none",      \* the configuration the POST was sent with
      tmp |-> 0,            \* the value `count += 1' has read
      result |-> "none",    \* "skipped", or the counter incremented: "success", "fail"
      log |-> "none" ]      \* level of the message logged for the file

Init ==
    /\ \E a \in ArgPairs : app_config = Config(a[1], a[2])
    /\ base_dir = ""
    /\ subdirs = <<>>
    /\ ignored_dirs = <<>>
    /\ embedding_in_progress = FALSE
    /\ stop_requested = FALSE
    /\ stop_btn = "disabled"
    /\ embedding_thread = "None"
    /\ progress_bar = [value |-> 0, maximum |-> 100, style |-> "green"]
    /\ thr = <<>>
    /\ nsaves = 0


\* ------------------------------------------------- main-thread handlers
\* ConfigWindow.save_config
save_config(url_entry, token_entry) ==
    /\ nsaves < MaxSaves
    /\ nsaves' = nsaves + 1
    /\ app_config' = Config(Strip(url_entry), Strip(token_entry))
    /\ UNCHANGED << gui, thr >>

\* LlmGuiApp.select_folder
select_folder(chosen) ==
    /\ IF ~is_valid(app_config)
         THEN UNCHANGED << base_dir, subdirs >>
         ELSE IF chosen # ""
                THEN /\ base_dir' = chosen
                     /\ subdirs' = ListDirs(<<chosen>>)
                ELSE UNCHANGED << base_dir, subdirs >>
    /\ UNCHANGED << app_config, ignored_dirs, embedding_in_progress, stop_requested,
                    stop_btn, embedding_thread, progress_bar, thr, nsaves >>

\* start_embedding, lines 409-419: the run is created
StartRun ==
    /\ embedding_in_progress' = TRUE
    /\ stop_requested' = FALSE
    /\ stop_btn' = "normal"
    /\ progress_bar' = [progress_bar EXCEPT !.value = 0]
    /\ embedding_thread' = "Thread"
    /\ thr' = Append(thr, [NoThread EXCEPT !.pc = "snap",
                                           !.base_dir = base_dir,
                                           !.ignored_dirs = ignored_dirs',
                                           !.start_cfg = app_config])

\* start_embedding, lines 399-419: past the three rejections
StartAccepted(sel, confirm) ==
    /\ ignored_dirs' = Pick(subdirs, sel)
    /\ IF confirm
         THEN /\ Len(thr) < MaxThreads
              /\ StartRun
         ELSE UNCHANGED << embedding_in_progress, stop_requested, stop_btn,
                           progress_bar, embedding_thread, thr >>
    /\ UNCHANGED << app_config, base_dir, subdirs, nsaves >>

\* start_embedding without the test of line 395
start_embedding_unguarded(sel, confirm) ==
    IF ~is_valid(app_config) THEN UNCHANGED vars
    ELSE IF base_dir = "" THEN UNCHANGED vars
    ELSE StartAccepted(sel, confirm)

\* LlmGuiApp.start_embedding
start_embedding(sel, confirm) ==
    IF ~is_valid(app_config) THEN UNCHANGED vars
    ELSE IF base_dir = "" THEN UNCHANGED vars
    ELSE IF embedding_in_progress THEN UNCHANGED vars
    ELSE StartAccepted(sel, confirm)

\* LlmGuiApp.stop_embedding (the button invokes it only while it is enabled)
stop_embedding ==
    /\ stop_btn = "normal"
    /\ IF ~embedding_in_progress
         THEN UNCHANGED vars
         ELSE /\ stop_requested' = TRUE
              /\ stop_btn' = "disabled"
              /\ thr' = [r \in DOMAIN thr |->
                           IF thr[r].pc \in {"fin508", "exit"}
                             THEN thr[r]
                             ELSE [thr[r] EXCEPT !.stop_accepted = TRUE]]
              /\ UNCHANGED << app_config, base_dir, subdirs, ignored_dirs,
                              embedding_in_progress, embedding_thread,
                              progress_bar, nsaves >>

\* ------------------------------------------------ embed_files_threaded
Set(r, f) == thr' = [thr EXCEPT ![r] = f]

\* where the walk goes once the current directory's files are dealt with
AfterFiles(walk, files) ==
    IF files # <<>> THEN "files" ELSE IF walk # <<>> THEN "walk" ELSE "setup"

\* lines 432-442: os.walk(base_dir) is created.  The locals api_url, api_token and
\* headers set here are never read again (upload_file reads app.app_config), so
\* the frame does not keep them.
Snapshot(r) ==
    /\ thr[r].pc = "snap"
    /\ Set(r, [thr[r] EXCEPT !.walk = << <<thr[r].base_dir>> >>, !.pc = "walk"])
    /\ UNCHANGED << app_config, gui, nsaves >>

\* lines 442-445: one iteration of the os.walk loop, up to the pruning of dirs
EnumDir(r) ==
    LET t == thr[r]
        root == Head(t.walk)
        dirs == Prune(ListDirs(root), t.ignored_dirs)
        walk == Children(root, dirs) \o Tail(t.walk)
        files == ListFiles(root)
    IN  /\ t.pc = "walk"
        /\ IF stop_requested
             THEN Set(r, [t EXCEPT !.pc = "setup"])
             ELSE Set(r, [t EXCEPT !.root = root, !.walk = walk, !.files = files,
                                   !.pc = AfterFiles(walk, files)])
        /\ UNCHANGED << app_config, gui, nsaves >>

\* lines 446-450: one iteration of the loop over the directory's files
EnumFile(r) ==
    LET t == thr[r]
    IN  /\ t.pc = "files"
        /\ IF stop_requested
             THEN Set(r, [t EXCEPT !.files = <<>>, !.pc = AfterFiles(t.walk, <<>>)])
             ELSE Set(r, [t EXCEPT !.all_files = Append(@, Append(t.root, Head(t.files))),
                                   !.files = Tail(@),
                                   !.pc = AfterFiles(t.walk, Tail(t.files))])
        /\ UNCHANGED << app_config, gui, nsaves >>

\* lines 452-455 without line 457: the bar keeps the maximum it had
Setup_NoMaximum(r) ==
    LET t == thr[r]
        n == Len(t.all_files)
    IN  /\ t.pc = "setup"
        /\ Set(r, [t EXCEPT !.total_files = n, !.success_count = 0, !.fail_count = 0,
                            !.pc = IF n = 0 THEN "join" ELSE "submit"])
        /\ UNCHANGED << app_config, gui, nsaves >>

\* lines 452-457
Setup(r) ==
    LET t == thr[r]
        n == Len(t.all_files)
    IN  /\ t.pc = "setup"
        /\ Set(r, [t EXCEPT !.total_files = n, !.success_count = 0, !.fail_count = 0,
                            !.pc = IF n = 0 THEN "join" ELSE "submit"])
        /\ progress_bar' = [progress_bar EXCEPT !.maximum = n]
        /\ UNCHANGED << app_config, base_dir, subdirs, ignored_dirs, embedding_in_progress,
                        stop_requested, stop_btn, embedding_thread, nsaves >>

\* line 487 with the comprehension submitting all_files[0] every time
Submit_FirstAgain(r) ==
    LET t == thr[r]
        tasks == Append(t.tasks, NewTask(t.all_files[1]))
    IN  /\ t.pc = "submit"
        /\ Set(r, [t EXCEPT !.tasks = tasks,
                            !.pc = IF Len(tasks) = t.total_files THEN "loop" ELSE "submit"])
        /\ UNCHANGED << app_config, gui, nsaves >>

\* line 487: executor.submit(upload_file, fp) for the next file of all_files
Submit(r) ==
    LET t == thr[r]
        tasks == Append(t.tasks, NewTask(t.all_files[Len(t.tasks) + 1]))
    IN  /\ t.pc = "submit"
        /\ Set(r, [t EXCEPT !.tasks = tasks,
                            !.pc = IF Len(tasks) = t.total_files THEN "loop" ELSE "submit"])
        /\ UNCHANGED << app_config, gui, nsaves >>

\* ------------------------------------------------------------ pool workers
Running(r) == {j \in DOMAIN thr[r].tasks : thr[r].tasks[j].st \in {"begun", "try", "load", "store"}}
Done(r) == {j \in DOMAIN thr[r].tasks : thr[r].tasks[j].st = "done"}

SetTask(r, i, f) == thr' = [thr EXCEPT ![r].tasks[i] = f]

\* a free worker takes the oldest queued work item and calls upload_file(fpath)
TaskBegin(r, i) ==
    /\ thr[r].tasks[i].st = "queued"
    /\ \A j \in 1..(i - 1) : thr[r].tasks[j].st # "queued"
    /\ Cardinality(Running(r)) < MaxWorkers
    /\ SetTask(r, i, [thr[r].tasks[i] EXCEPT !.st = "begun", !.late = thr[r].stop_accepted])
    /\ UNCHANGED << app_config, gui, nsaves >>

\* upload_file without the test of lines 461-462
UploadCheck_NoStopCheck(r, i) ==
    /\ thr[r].tasks[i].st = "begun"
    /\ SetTask(r, i, [thr[r].tasks[i] EXCEPT !.st = "try"])
    /\ UNCHANGED << app_config, gui, nsaves >>

\* lines 461-462
UploadCheck(r, i) ==
    /\ thr[r].tasks[i].st = "begun"
    /\ IF stop_requested
         THEN SetTask(r, i, [thr[r].tasks[i] EXCEPT !.st = "done", !.result = "skipped"])
         ELSE SetTask(r, i, [thr[r].tasks[i] EXCEPT !.st = "try"])
    /\ UNCHANGED << app_config, gui, nsaves >>

\* upload_file without the except clause of line 482: an exception ends the call
\* (the future keeps it) and nothing is counted or logged
UploadTry_Raises(r, i, o) ==
    /\ thr[r].tasks[i].st = "try"
    /\ o \in {"status_200", "status_500"} => Sendable(app_config)
    /\ IF o \in {"read_exc", "post_exc"}
         THEN SetTask(r, i, [thr[r].tasks[i] EXCEPT !.st = "done"])
         ELSE SetTask(r, i, [thr[r].tasks[i] EXCEPT
                               !.st = "load", !.cause = o,
                               !.post = IF app_config = thr[r].start_cfg
                                          THEN "start_cfg" ELSE "other_cfg"])
    /\ UNCHANGED << app_config, gui, nsaves >>

\* lines 463-476 and 482: open and read the file, POST it, look at the status
UploadTry(r, i, o) ==
    /\ thr[r].tasks[i].st = "try"
    /\ o \in {"status_200", "status_500"} => Sendable(app_config)
    /\ SetTask(r, i, [thr[r].tasks[i] EXCEPT
                        !.st = "load",
                        !.cause = o,
                        !.post = IF o = "read_exc" \/ ~Sendable(app_config) THEN "none"
                                 ELSE IF app_config = thr[r].start_cfg THEN "start_cfg"
                                 ELSE "other_cfg"])
    /\ UNCHANGED << app_config, gui, nsaves >>

\* lines 477, 480, 483: `count += 1' reads the shared cell ...
CounterLoad(r, i) ==
    /\ thr[r].tasks[i].st = "load"
    /\ SetTask(r, i, [thr[r].tasks[i] EXCEPT
                        !.st = "store",
                        !.tmp = IF thr[r].tasks[i].cause = "status_200"
                                  THEN thr[r].success_count ELSE thr[r].fail_count])
    /\ UNCHANGED << app_config, gui, nsaves >>

\* the store with line 479 (`else:') missing: fail_count is incremented after a
\* success too
CounterStore_NoElse(r, i) ==
    LET k == thr[r].tasks[i]
        ok == k.cause = "status_200"
    IN  /\ k.st = "store"
        /\ thr' = [thr EXCEPT
                     ![r].success_count = IF ok THEN k.tmp + 1 ELSE @,
                     ![r].fail_count = IF ok THEN @ + 1 ELSE k.tmp + 1,
                     ![r].tasks[i] = [k EXCEPT !.st = "done",
                                               !.cause = "none", !.post = "none", !.tmp = 0,
                                               !.result = IF ok THEN "success" ELSE "fail",
                                               !.log = IF ok THEN "info" ELSE "error"]]
        /\ UNCHANGED << app_config, gui, nsaves >>

\* the store with line 476 testing only that a response came back: any status
\* counts as uploaded
CounterStore_AnyStatusOk(r, i) ==
    LET k == thr[r].tasks[i]
        ok == k.cause \in {"status_200", "status_500"}
    IN  /\ k.st = "store"
        /\ thr' = [thr EXCEPT
                     ![r].success_count = IF ok THEN k.tmp + 1 ELSE @,
                     ![r].fail_count = IF ok THEN @ ELSE k.tmp + 1,
                     ![r].tasks[i] = [k EXCEPT !.st = "done",
                                               !.cause = "none", !.post = "none", !.tmp = 0,
                                               !.result = IF ok THEN "success" ELSE "fail",
                                               !.log = IF ok THEN "info" ELSE "error"]]
        /\ UNCHANGED << app_config, gui, nsaves >>

\* ... and writes it back; then lines 478, 481, 484 log the outcome
CounterStore(r, i) ==
    LET k == thr[r].tasks[i]
        ok == k.cause = "status_200"
    IN  /\ k.st = "store"
        /\ thr' = [thr EXCEPT
                     ![r].success_count = IF ok THEN k.tmp + 1 ELSE @,
                     ![r].fail_count = IF ok THEN @ ELSE k.tmp + 1,
                     ![r].tasks[i] = [k EXCEPT !.st = "done",
                                               !.cause = "none", !.post = "none", !.tmp = 0,
                                               !.result = IF ok THEN "success" ELSE "fail",
                                               !.log = IF ok THEN "info" ELSE "error"]]
        /\ UNCHANGED << app_config, gui, nsaves >>

\* -------------------------------------------- the as_completed loop and after
\* lines 488-492: as_completed yields a finished future
LoopNext(r) ==
    LET t == thr[r]
    IN  /\ t.pc = "loop"
        /\ t.yielded < Cardinality(Done(r))
        /\ IF stop_requested
             THEN /\ Set(r, [t EXCEPT !.yielded = @ + 1, !.pc = "join"])
                  /\ UNCHANGED progress_bar
             ELSE /\ Set(r, [t EXCEPT !.yielded = @ + 1, !.steps = @ + 1, !.pc = "style"])
                  /\ progress_bar' = [progress_bar EXCEPT
                                        !.value = StepValue(@, progress_bar.maximum)]
        /\ UNCHANGED << app_config, base_dir, subdirs, ignored_dirs, embedding_in_progress,
                        stop_requested, stop_btn, embedding_thread, nsaves >>

\* lines 493-497, and the loop's end once every future has been yielded
LoopStyle(r) ==
    LET t == thr[r]
    IN  /\ t.pc = "style"
        /\ progress_bar' = [progress_bar EXCEPT
                              !.style = IF t.fail_count = 0 THEN "green" ELSE "red"]
        /\ Set(r, [t EXCEPT !.pc = IF t.yielded = t.total_files THEN "join" ELSE "loop"])
        /\ UNCHANGED << app_config, base_dir, subdirs, ignored_dirs, embedding_in_progress,
                        stop_requested, stop_btn, embedding_thread, nsaves >>

\* leaving the with block as executor.shutdown(wait=False) would
ExecutorExit_NoWait(r) ==
    /\ thr[r].pc = "join"
    /\ Set(r, [thr[r] EXCEPT !.pc = "report"])
    /\ UNCHANGED << app_config, gui, nsaves >>

\* line 486, leaving the with block: executor.shutdown(wait=True)
ExecutorExit(r) ==
    /\ thr[r].pc = "join"
    /\ Done(r) = DOMAIN thr[r].tasks
    /\ Set(r, [thr[r] EXCEPT !.pc = "report"])
    /\ UNCHANGED << app_config, gui, nsaves >>

\* lines 499-504
Report(r) ==
    LET t == thr[r]
    IN  /\ t.pc = "report"
        /\ IF ~stop_requested
             THEN /\ Set(r, [t EXCEPT !.pc = "fin506",
                                      !.term = [msg |-> "completed",
                                                success |-> t.success_count,
                                                fail |-> t.fail_count]])
                  /\ progress_bar' = [progress_bar EXCEPT !.value = t.total_files]
             ELSE /\ Set(r, [t EXCEPT !.pc = "fin506", !.term = [NoLog EXCEPT !.msg = "stopped"]])
                  /\ UNCHANGED progress_bar
        /\ UNCHANGED << app_config, base_dir, subdirs, ignored_dirs, embedding_in_progress,
                        stop_requested, stop_btn, embedding_thread, nsaves >>

\* the end of the function without line 506: the flag is never reset
Fin506_NoReset(r) ==
    /\ thr[r].pc = "fin506"
    /\ stop_btn' = "disabled"
    /\ Set(r, [NoThread EXCEPT !.pc = "fin508",
                               !.term = [NoLog EXCEPT !.msg = thr[r].term.msg]])
    /\ UNCHANGED << app_config, base_dir, subdirs, ignored_dirs, stop_requested,
                    embedding_in_progress, embedding_thread, progress_bar, nsaves >>

\* lines 506-507, taken as one step.  Between the two statements stop_btn is the
\* only thing at stake: a click on it is refused at line 423, and a run started
\* there has its button disabled by line 507, which only takes the stop away from
\* that run.  Nothing after line 506 reads the frame's locals: they are dropped
\* here, the kind of terminal message logged is kept.
Fin506(r) ==
    /\ thr[r].pc = "fin506"
    /\ embedding_in_progress' = FALSE
    /\ stop_btn' = "disabled"
    /\ Set(r, [NoThread EXCEPT !.pc = "fin508",
                               !.term = [NoLog EXCEPT !.msg = thr[r].term.msg]])
    /\ UNCHANGED << app_config, base_dir, subdirs, ignored_dirs, stop_requested,
                    embedding_thread, progress_bar, nsaves >>

\* lines 508-511
Fin508(r) ==
    /\ thr[r].pc = "fin508"
    /\ Set(r, [thr[r] EXCEPT !.pc = "exit",
                             !.dialog = IF ~stop_requested THEN "Done" ELSE "Stopped"])
    /\ UNCHANGED << app_config, gui, nsaves >>

\* the dialog is dismissed and embed_files_threaded returns: its frame is gone
ThreadExit(r) ==
    /\ thr[r].pc = "exit"
    /\ thr' = [q \in 1..(Len(thr) - 1) |-> IF q < r THEN thr[q] ELSE thr[q + 1]]
    /\ UNCHANGED << app_config, gui, nsaves >>

Next ==
    \/ \E u \in EntryUrls, t \in EntryTokens : save_config(u, t)
    \/ \E c \in Folders : select_folder(c)
    \/ \E sel \in SUBSET (1..Len(subdirs)), c \in BOOLEAN : start_embedding(sel, c)
    \/ stop_embedding
    \/ \E r \in DOMAIN thr : Snapshot(r)
    \/ \E r \in DOMAIN thr : EnumDir(r)
    \/ \E r \in DOMAIN thr : EnumFile(r)
    \/ \E r \in DOMAIN thr : Setup(r)
    \/ \E r \in DOMAIN thr : Submit(r)
    \/ \E r \in DOMAIN thr : \E i \in DOMAIN thr[r].tasks : TaskBegin(r, i)
    \/ \E r \in DOMAIN thr : \E i \in DOMAIN thr[r].tasks : UploadCheck(r, i)
    \/ \E r \in DOMAIN thr : \E i \in DOMAIN thr[r].tasks, o \in Outcomes : UploadTry(r, i, o)
    \/ \E r \in DOMAIN thr : \E i \in DOMAIN thr[r].tasks : CounterLoad(r, i)
    \/ \E r \in DOMAIN thr : \E i \in DOMAIN thr[r].tasks : CounterStore(r, i)
    \/ \E r \in DOMAIN thr : LoopNext(r)
    \/ \E r \in DOMAIN thr : LoopStyle(r)
    \/ \E r \in DOMAIN thr : ExecutorExit(r)
    \/ \E r \in DOMAIN thr : Report(r)
    \/ \E r \in DOMAIN thr : Fin506(r)
    \/ \E r \in DOMAIN thr : Fin508(r)
    \/ \E r \in DOMAIN thr : ThreadExit(r)

Spec == Init /\ [][Next]_vars

\* ------------------------------------------------------- the walk on its own
\* embed_files_threaded has just been started on one of the trees with some
\* ignore list, and nobody requests a stop: lines 441-450 (and, without the two
\* stop tests, lines 96-101 of embed_files_cli) run to the end.
WalkInit ==
    /\ \E a \in ArgPairs : app_config = Config(a[1], a[2])
    /\ \E b \in WalkRoots, sel \in SUBSET (1..Len(DirNames)) :
          /\ base_dir = b
          /\ subdirs = ListDirs(<<b>>)
          /\ ignored_dirs = Pick(DirNames, sel)
          /\ thr = << [NoThread EXCEPT !.pc = "snap", !.base_dir = b,
                                       !.ignored_dirs = Pick(DirNames, sel),
                                       !.start_cfg = app_config] >>
    /\ embedding_in_progress = TRUE
    /\ stop_requested = FALSE
    /\ stop_btn = "normal"
    /\ embedding_thread = "Thread"
    /\ progress_bar = [value |-> 0, maximum |-> 100, style |-> "green"]
    /\ nsaves = 0

WalkNext ==
    \/ \E r \in DOMAIN thr : Snapshot(r)
    \/ \E r \in DOMAIN thr : EnumDir(r)
    \/ \E r \in DOMAIN thr : EnumFile(r)

SpecWalk == WalkInit /\ [][WalkNext]_vars

\* ---------------------------------------------------------------- CLI mode
\* run_cli_mode has built a valid Config, read a directory and the subfolders to
\* ignore (numbers into the listing of the directory), and calls
\* embed_files_cli, whose frame is the one element of thr.  No window exists: the
\* attributes of LlmGuiApp keep their initial values.
CliInit ==
    /\ \E a \in ArgPairs : app_config = Config(a[1], a[2])
    /\ is_valid(app_config)
    /\ \E b \in WalkRoots, sel \in SUBSET (1..Len(DirNames)) :
          /\ base_dir = b
          /\ subdirs = ListDirs(<<b>>)
          /\ ignored_dirs = Pick(subdirs, sel \cap DOMAIN subdirs)
          /\ thr = << [NoThread EXCEPT !.pc = "cli_walk", !.base_dir = b,
                                       !.ignored_dirs = ignored_dirs,
                                       !.walk = << <<b>> >>,
                                       !.start_cfg = app_config] >>
    /\ embedding_in_progress = FALSE
    /\ stop_requested = FALSE
    /\ stop_btn = "disabled"
    /\ embedding_thread = "None"
    /\ progress_bar = [value |-> 0, maximum |-> 100, style |-> "green"]
    /\ nsaves = 0

\* lines 97-98: one iteration of the os.walk loop, up to the pruning of dirs
CliEnumDir ==
    LET t == thr[1]
        root == Head(t.walk)
        dirs == Prune(ListDirs(root), t.ignored_dirs)
        walk == Children(root, dirs) \o Tail(t.walk)
        files == ListFiles(root)
    IN  /\ t.pc = "cli_walk"
        /\ Set(1, [t EXCEPT !.root = root, !.walk = walk, !.files = files,
                            !.pc = IF files # <<>> THEN "cli_files"
                                   ELSE IF walk # <<>> THEN "cli_walk" ELSE "cli_found"])
        /\ UNCHANGED << app_config, gui, nsaves >>

\* lines 99-101
CliEnumFile ==
    LET t == thr[1]
    IN  /\ t.pc = "cli_files"
        /\ Set(1, [t EXCEPT !.all_files = Append(@, Append(t.root, Head(t.files))),
                            !.files = Tail(@),
                            !.pc = IF Tail(t.files) # <<>> THEN "cli_files"
                                   ELSE IF t.walk # <<>> THEN "cli_walk" ELSE "cli_found"])
        /\ UNCHANGED << app_config, gui, nsaves >>

\* lines 103-105
CliFound ==
    /\ thr[1].pc = "cli_found"
    /\ Set(1, [thr[1] EXCEPT !.total_files = Len(thr[1].all_files),
                             !.success_count = 0, !.fail_count = 0, !.pc = "cli_loop"])
    /\ UNCHANGED << app_config, gui, nsaves >>

\* lines 107-120 and 129: the loop takes the next file, reads it and POSTs it
CliTry(o) ==
    LET t == thr[1]
    IN  /\ t.pc = "cli_loop"
        /\ Len(t.tasks) < Len(t.all_files)
        /\ o \in {"status_200", "status_500"} => Sendable(t.start_cfg)
        /\ Set(1, [t EXCEPT !.tasks = Append(@, [NewTask(t.all_files[Len(t.tasks) + 1])
                                                    EXCEPT !.st = "load", !.cause = o]),
                            !.pc = "cli_count"])
        /\ UNCHANGED << app_config, gui, nsaves >>

\* lines 121-131 without line 130: an exception is logged and not counted
CliCount_ExceptionNotCounted ==
    LET t == thr[1]
        i == Len(t.tasks)
        k == t.tasks[i]
        ok == k.cause = "status_200"
        exc == k.cause \in {"read_exc", "post_exc"}
    IN  /\ t.pc = "cli_count"
        /\ Set(1, [t EXCEPT !.success_count = IF ok THEN @ + 1 ELSE @,
                            !.fail_count = IF ok \/ exc THEN @ ELSE @ + 1,
                            !.tasks[i] = [k EXCEPT !.st = "done", !.cause = "none",
                                                   !.result = IF ok THEN "success" ELSE "fail",
                                                   !.log = IF ok THEN "info" ELSE "error"],
                            !.pc = "cli_loop"])
        /\ UNCHANGED << app_config, gui, nsaves >>

\* lines 121-131: the outcome is counted and logged (one thread: the increment
\* cannot be interleaved with another)
CliCount ==
    LET t == thr[1]
        i == Len(t.tasks)
        k == t.tasks[i]
        ok == k.cause = "status_200"
    IN  /\ t.pc = "cli_count"
        /\ Set(1, [t EXCEPT !.success_count = IF ok THEN @ + 1 ELSE @,
                            !.fail_count = IF ok THEN @ ELSE @ + 1,
                            !.tasks[i] = [k EXCEPT !.st = "done", !.cause = "none",
                                                   !.result = IF ok THEN "success" ELSE "fail",
                                                   !.log = IF ok THEN "info" ELSE "error"],
                            !.pc = "cli_loop"])
        /\ UNCHANGED << app_config, gui, nsaves >>

\* lines 133-134
CliSummary ==
    LET t == thr[1]
    IN  /\ t.pc = "cli_loop"
        /\ Len(t.tasks) = Len(t.all_files)
        /\ Set(1, [t EXCEPT !.pc = "cli_done",
                            !.term = [msg |-> "completed", success |-> t.success_count,
                                      fail |-> t.fail_count]])
        /\ UNCHANGED << app_config, gui, nsaves >>

CliNext ==
    \/ CliEnumDir
    \/ CliEnumFile
    \/ CliFound
    \/ \E o \in Outcomes : CliTry(o)
    \/ CliCount
    \/ CliSummary

SpecCli == CliInit /\ [][CliNext]_vars

\* ------------------------------------------------------------------ claims
\* The run of frame r has not executed line 506 yet.
InRun(r) == thr[r].pc \notin {"fin508", "exit"}
RunsInProgress == {r \in DOMAIN thr : InRun(r)}
\* The run of frame r has logged its terminal message and line 506 is next.
AtSummary(r) == thr[r].pc = "fin506"
Failures == {"read_exc", "post_exc", "status_500"}
Recorded(k) == k.result \in {"success", "fail"}

\* C1: in a run in which stop was never requested, the counters read for the
\* 'Embedding Completed' message add up to total_files: no increment made by
\* upload_file is lost, whatever the interleaving of the workers.
C1_CountsAddUp ==
    \A r \in DOMAIN thr :
        (AtSummary(r) /\ thr[r].term.msg = "completed" /\ ~thr[r].stop_accepted)
            => thr[r].term.success + thr[r].term.fail = thr[r].total_files

\* C2: a call of upload_file that begins after the run's stop was requested
\* returns at line 462: it opens no file, sends no POST, counts and logs nothing.
\* This covers the files still queued in the pool and the files enumerated before
\* a stop that arrived during the walk (the others are never submitted).
C2_NoUploadAfterStop ==
    \A r \in DOMAIN thr : \A i \in DOMAIN thr[r].tasks :
        LET k == thr[r].tasks[i]
        IN  k.late => /\ k.st \in {"begun", "done"}
                      /\ k.cause = "none" /\ k.post = "none"
                      /\ k.result \in {"none", "skipped"} /\ k.log = "none"

\* a stop arrived in mid-run: one file was uploaded, a later call was skipped
C2_Witness ==
    \E r \in DOMAIN thr : \E i, j \in DOMAIN thr[r].tasks :
        /\ thr[r].tasks[i].late /\ thr[r].tasks[i].result = "skipped"
        /\ thr[r].tasks[j].result = "success"

\* C3: a run whose stop_embedding was accepted logs 'Embedding has been stopped by
\* the user.' as its terminal message, never 'Embedding Completed'.
C3_StopGivesStoppedLog ==
    \A r \in DOMAIN thr :
        (InRun(r) /\ thr[r].stop_accepted /\ thr[r].term.msg # "none")
            => thr[r].term.msg = "stopped"

\* C4: at most one run is in progress, and embedding_in_progress says whether one
\* is; while one is in progress no step (start_embedding least of all) creates a
\* thread, changes ignored_dirs, clears stop_requested, or touches the progress
\* bar other than the run's own thread.
C4_OneRunAtATime ==
    /\ [](/\ Cardinality(RunsInProgress) <= 1
          /\ embedding_in_progress <=> RunsInProgress # {})
    /\ [][embedding_in_progress =>
            /\ Len(thr') <= Len(thr)
            /\ ignored_dirs' = ignored_dirs
            /\ stop_requested => stop_requested'
            /\ progress_bar' # progress_bar => (Len(thr') = Len(thr) /\ thr' # thr)]_vars

\* a second run is uploading while the thread of the first still shows its dialog
C4_Witness ==
    \E r, q \in DOMAIN thr :
        /\ thr[q].pc \in {"fin508", "exit"}
        /\ InRun(r) /\ thr[r].tasks # <<>>
        /\ embedding_in_progress

\* C5: at each iteration of the as_completed loop (after its step()) and at the
\* final summary ('Embedding Completed. Success=.., Fail=..'), success_count +
\* fail_count equals the number of step() calls made.
C5_CountsMatchProgress ==
    \A r \in DOMAIN thr :
        (thr[r].pc = "style" \/ (AtSummary(r) /\ thr[r].term.msg = "completed"))
            => thr[r].success_count + thr[r].fail_count = thr[r].steps

\* C6: in every state of a run, cancelled or not, the number of step() calls and
\* success_count + fail_count are at most total_files, and the bar's value is at
\* most its maximum.
C6_NeverOverTotal ==
    /\ progress_bar.value <= progress_bar.maximum
    /\ \A r \in DOMAIN thr :
          (InRun(r) /\ thr[r].pc \notin {"snap", "walk", "files", "setup"})
              => /\ thr[r].steps <= thr[r].total_files
                 /\ thr[r].success_count + thr[r].fail_count <= thr[r].total_files

\* every file of a two-file run was counted and stepped
C6_Witness ==
    \E r \in DOMAIN thr :
        /\ AtSummary(r) /\ thr[r].total_files = 2
        /\ thr[r].steps = 2 /\ progress_bar.value = 2
        /\ thr[r].success_count + thr[r].fail_count = 2

\* C7: a failure in upload_file (read exception, HTTP exception, status other than
\* 200) increments fail_count once, success_count not at all, and logs one error;
\* a finished call records nothing more; and the run goes on: when stop is not
\* requested every enumerated file has been uploaded or recorded as failed by the
\* time the run reports, and the report is 'Embedding Completed'.
C7_FailureIsLocal ==
    /\ [](\A r \in DOMAIN thr :
            (thr[r].pc \in {"report", "fin506"} /\ ~thr[r].stop_accepted)
                => /\ thr[r].term.msg # "stopped"
                   /\ Len(thr[r].tasks) = Len(thr[r].all_files)
                   /\ \A i \in DOMAIN thr[r].tasks :
                         /\ Recorded(thr[r].tasks[i])
                         /\ thr[r].tasks[i].result = "fail" <=> thr[r].tasks[i].log = "error")
    /\ [][\A r \in DOMAIN thr \cap DOMAIN thr' :
            \A i \in DOMAIN thr[r].tasks \cap DOMAIN thr'[r].tasks :
                LET k == thr[r].tasks[i]
                    n == thr'[r].tasks[i]
                IN  /\ (k.st = "store" /\ n.st = "done" /\ k.cause \in Failures)
                        => /\ thr'[r].fail_count = k.tmp + 1
                           /\ thr'[r].success_count = thr[r].success_count
                           /\ n.result = "fail" /\ n.log = "error"
                    /\ k.st = "done" => n = k]_vars

\* a run with one failed and one uploaded file reported 'Embedding Completed'
C7_Witness ==
    \E r \in DOMAIN thr : \E i, j \in DOMAIN thr[r].tasks :
        /\ AtSummary(r) /\ thr[r].term.msg = "completed" /\ ~thr[r].stop_accepted
        /\ thr[r].tasks[i].result = "fail" /\ thr[r].tasks[i].log = "error"
        /\ thr[r].tasks[j].result = "success"

\* C8: the terminal message is logged, and embedding_in_progress reset, only after
\* every submitted call of upload_file has returned; a call that got past its stop
\* check is never abandoned: it ends with its outcome counted, stop or no stop.
C8_ReportAfterAllReturned ==
    /\ [](\A r \in DOMAIN thr :
            /\ thr[r].pc \in {"report", "fin506"}
                 => /\ Len(thr[r].tasks) = Len(thr[r].all_files)
                    /\ \A i \in DOMAIN thr[r].tasks :
                          thr[r].tasks[i].st = "done" /\ thr[r].tasks[i].result # "none"
            /\ (\E i \in DOMAIN thr[r].tasks : thr[r].tasks[i].st # "done")
                 => embedding_in_progress)
    /\ [][\A r \in DOMAIN thr \cap DOMAIN thr' :
            \A i \in DOMAIN thr[r].tasks \cap DOMAIN thr'[r].tasks :
                LET k == thr[r].tasks[i]
                    n == thr'[r].tasks[i]
                IN  k.st \in {"try", "load", "store"}
                        => /\ n.st \in {"try", "load", "store", "done"}
                           /\ n.st = "done" => Recorded(n)]_vars

\* a stopped run: one call was skipped, another had started and was counted
C8_Witness ==
    \E r \in DOMAIN thr : \E i, j \in DOMAIN thr[r].tasks :
        /\ AtSummary(r) /\ thr[r].term.msg = "stopped"
        /\ Recorded(thr[r].tasks[i])
        /\ thr[r].tasks[j].result = "skipped"

\* C9: once stop_requested is true in a run it stays true until that run has read
\* it for its terminal dialog (line 508).
C9_StopMonotonic ==
    [][(/\ stop_requested
        /\ \E r \in DOMAIN thr :
              \/ InRun(r) /\ thr[r].stop_accepted
              \/ thr[r].pc = "fin508" /\ thr[r].term.msg = "stopped")
          => stop_requested']_vars

\* C10: every POST of a run is sent with the api_url and api_token app_config held
\* when start_embedding started the run.
C10_ConfigFixedAtStart ==
    \A r \in DOMAIN thr : \A i \in DOMAIN thr[r].tasks :
        thr[r].tasks[i].post \in {"none", "start_cfg"}

\* every file below directory d of the tree
RECURSIVE TreeFiles(_)
TreeFiles(d) ==
    {Append(d, ListFiles(d)[i]) : i \in DOMAIN ListFiles(d)}
        \cup UNION {TreeFiles(Append(d, ListDirs(d)[i])) : i \in DOMAIN ListDirs(d)}

\* no directory between the walk's root and file p has its name in ignored
NoIgnoredAncestor(p, ignored) == \A i \in 2..(Len(p) - 1) : ~InSeq(p[i], ignored)

\* C11: when the walk has ended without a stop, all_files holds exactly the files
\* of the tree that have no ancestor directory (below the walk's root) named in
\* the ignore list, each of them once.
C11_WalkPrunesByName ==
    \A r \in DOMAIN thr :
        thr[r].pc = "setup"
            => LET t == thr[r]
               IN  /\ {t.all_files[i] : i \in DOMAIN t.all_files}
                        = {p \in TreeFiles(<<t.base_dir>>) :
                               NoIgnoredAncestor(p, t.ignored_dirs)}
                   /\ \A i, j \in DOMAIN t.all_files :
                         t.all_files[i] = t.all_files[j] => i = j

\* /e walked ignoring "a": /e/a and /e/b/a are pruned, /e/f and /e/b/c remain
C11_Witness ==
    \E r \in DOMAIN thr :
        /\ thr[r].pc = "setup" /\ thr[r].base_dir = "/e"
        /\ thr[r].ignored_dirs = <<"a">>
        /\ thr[r].all_files = << <<"/e", "f">>, <<"/e", "b", "c">> >>

\* how far a call of upload_file has got
Rank(st) ==
    CASE st = "queued" -> 0 [] st = "begun" -> 1 [] st = "try" -> 2
      [] st = "load" -> 3 [] st = "store" -> 4 [] st = "done" -> 5

\* C12: the i-th call handed to the pool is upload_file(all_files[i]), one call per
\* enumerated file and all_files names no file twice; a call never goes back, so
\* it reads and POSTs its file (the step from line 463 to line 476) at most once and
\* what it met is not replaced by a second attempt; and in a run without a stop
\* every enumerated file has had its call, ended as uploaded or failed, when the
\* run reports.
C12_OneAttemptPerFile ==
    /\ [](\A r \in DOMAIN thr :
            LET t == thr[r]
            IN  /\ Len(t.tasks) <= Len(t.all_files)
                /\ \A i \in DOMAIN t.tasks : t.tasks[i].fpath = t.all_files[i]
                /\ \A i, j \in DOMAIN t.all_files :
                      t.all_files[i] = t.all_files[j] => i = j
                /\ (t.pc = "report" /\ ~t.stop_accepted)
                      => /\ Len(t.tasks) = Len(t.all_files)
                         /\ \A i \in DOMAIN t.tasks :
                               t.tasks[i].st = "done" /\ Recorded(t.tasks[i]))
    /\ [][\A r \in DOMAIN thr \cap DOMAIN thr' :
            \A i \in DOMAIN thr[r].tasks \cap DOMAIN thr'[r].tasks :
                LET k == thr[r].tasks[i]
                    n == thr'[r].tasks[i]
                IN  /\ n.fpath = k.fpath
                    /\ Rank(n.st) >= Rank(k.st)
                    /\ Rank(n.st) > Rank(k.st) \/ n = k
                    /\ (k.cause # "none" /\ n.st # "done") => n.cause = k.cause]_vars

\* both files of /d have had their call and the run is about to report
C12_Witness ==
    \E r \in DOMAIN thr :
        /\ thr[r].pc = "report" /\ ~thr[r].stop_accepted
        /\ Len(thr[r].tasks) = 2
        /\ thr[r].tasks[1].fpath = <<"/d", "a", "g">> /\ Recorded(thr[r].tasks[1])
        /\ thr[r].tasks[2].fpath = <<"/d", "b", "a", "h">> /\ Recorded(thr[r].tasks[2])

\* While the configuration is invalid or no folder is selected, no step starts a
\* run: no thread is created, embedding_in_progress is not raised, stop_requested
\* is not cleared, ignored_dirs and embedding_thread stay, and the bar is only
\* touched by a thread already running.
C13_StartRejected ==
    [][(~is_valid(app_config) \/ base_dir = "")
          => /\ Len(thr') <= Len(thr)
             /\ embedding_in_progress' => embedding_in_progress
             /\ stop_requested => stop_requested'
             /\ ignored_dirs' = ignored_dirs
             /\ embedding_thread' = embedding_thread
             /\ progress_bar' # progress_bar => thr' # thr]_vars

\* A "Save" that is rejected (what was typed has an empty URL or token once
\* stripped, which is what app_config holds after line 298) leaves app_config as
\* it was.
C13_SaveRejected ==
    [][(nsaves' # nsaves /\ ~is_valid(app_config')) => app_config' = app_config]_vars

\* C13: a configuration error creates no partial state: start_embedding with an
\* invalid configuration or with no folder selected starts nothing and changes
\* nothing, and a rejected save_config leaves the stored configuration unchanged.
C13_NoPartialState == C13_StartRejected /\ C13_SaveRejected

\* the calls of run r that ended with an outcome counted
RecordedTasks(r) == {i \in DOMAIN thr[r].tasks : Recorded(thr[r].tasks[i])}

\* In a run without a stop the as_completed loop has stepped the bar once per
\* enumerated file when the with block is left.
C14_AllSteppedWithoutStop ==
    \A r \in DOMAIN thr :
        (thr[r].pc \in {"report", "fin506"} /\ ~thr[r].stop_accepted)
            => thr[r].steps = thr[r].total_files

\* C14: once the loop is over, progress_bar.step() has been called at least once
\* for every call of upload_file that ended as uploaded or failed, the calls that
\* ended after a stop request included; without a stop the number of steps is
\* total_files.
C14_StepPerCompletedTask ==
    /\ C14_AllSteppedWithoutStop
    /\ \A r \in DOMAIN thr :
          thr[r].pc \in {"report", "fin506"}
              => thr[r].steps >= Cardinality(RecordedTasks(r))

\* C15: the bar is green while the run in progress has no failure counted, it is
\* red after each pass of the loop's style statement that found fail_count > 0,
\* and it does not go from red back to green while a run is in progress; so a run
\* started after a run that had failures shows green until its own first failure.
\* (The bar is allowed to turn red only at the loop's next pass: the claim's "in
\* every state" is not held against the time between line 480 and line 496.)
C15_StyleFollowsFailures ==
    /\ [](\A r \in DOMAIN thr :
            (InRun(r) /\ thr[r].fail_count = 0) => progress_bar.style = "green")
    /\ [][/\ \A r \in DOMAIN thr \cap DOMAIN thr' :
               (thr[r].pc = "style" /\ thr'[r].pc # "style" /\ thr[r].fail_count > 0)
                   => progress_bar'.style = "red"
          /\ (embedding_in_progress /\ embedding_in_progress'
                 /\ progress_bar.style = "red")
                  => progress_bar'.style = "red"]_vars

\* C16: a call of upload_file that got past its stop test records one outcome and
\* classifies it by what it met: status 200 increments success_count (the value
\* read plus one is written back) and leaves fail_count alone, logging 'Uploaded';
\* any other status, and an exception while reading or sending, increments
\* fail_count and leaves success_count alone, logging an error; the call then is
\* done and records nothing further.
C16_OutcomeClassified ==
    /\ [](\A r \in DOMAIN thr : \A i \in DOMAIN thr[r].tasks :
            LET k == thr[r].tasks[i]
            IN  /\ k.st \in {"load", "store"} => k.cause \in Outcomes /\ k.result = "none"
                /\ k.st = "done" => k.result \in {"skipped", "success", "fail"}
                /\ k.result = "success" => k.log = "info"
                /\ k.result = "fail" => k.log = "error"
                /\ k.result \in {"none", "skipped"} => k.log = "none")
    /\ [][\A r \in DOMAIN thr \cap DOMAIN thr' :
            \A i \in DOMAIN thr[r].tasks \cap DOMAIN thr'[r].tasks :
                LET k == thr[r].tasks[i]
                    n == thr'[r].tasks[i]
                IN  /\ (k.st = "load" /\ n.st = "store")
                        => n.tmp = IF k.cause = "status_200"
                                     THEN thr[r].success_count ELSE thr[r].fail_count
                    /\ (k.st = "store" /\ n.st = "done" /\ k.cause = "status_200")
                        => /\ thr'[r].success_count = k.tmp + 1
                           /\ thr'[r].fail_count = thr[r].fail_count
                           /\ n.result = "success"
                    /\ (k.st = "store" /\ n.st = "done" /\ k.cause # "status_200")
                        => /\ thr'[r].fail_count = k.tmp + 1
                           /\ thr'[r].success_count = thr[r].success_count
                           /\ n.result = "fail"
                    /\ (k.st = "try" /\ n.st # "try") => n.st = "load"
                    /\ k.st = "done" => n.result = k.result /\ n.log = k.log]_vars

\* one call met status 200 and one did not: each counter was incremented once
C16_Witness ==
    \E r \in DOMAIN thr :
        /\ thr[r].pc = "loop" /\ Len(thr[r].tasks) = 2
        /\ thr[r].tasks[1].result = "success" /\ thr[r].tasks[2].result = "fail"
        /\ thr[r].success_count = 1 /\ thr[r].fail_count = 1

\* ------------------------------------------------------------- scheduling
\* one statement of the embedding thread in frame r, up to its terminal dialog
ThreadStep(r) ==
    /\ r \in DOMAIN thr
    /\ \/ Snapshot(r) \/ EnumDir(r) \/ EnumFile(r) \/ Setup(r) \/ Submit(r)
       \/ LoopNext(r) \/ LoopStyle(r) \/ ExecutorExit(r) \/ Report(r)
       \/ Fin506(r) \/ Fin508(r)

\* one step of the pool on the i-th call of run r; the call itself always ends
\* (open, read and requests.post return or raise)
WorkerStep(r, i) ==
    /\ r \in DOMAIN thr
    /\ i \in DOMAIN thr[r].tasks
    /\ \/ TaskBegin(r, i) \/ UploadCheck(r, i)
       \/ \E o \in Outcomes : UploadTry(r, i, o)
       \/ CounterLoad(r, i) \/ CounterStore(r, i)

\* the files below /d, the folder the runs of Spec are started on: the most
\* calls a run hands to the pool
MaxFiles == Cardinality(TreeFiles(<<"/d">>))

\* Threads are scheduled fairly: a thread that can run a statement eventually
\* runs.  Nothing is assumed of the user: no handler of the main thread has to
\* happen, and a terminal dialog may stay open for ever.
FairSpec ==
    /\ Spec
    /\ \A r \in 1..MaxThreads : WF_vars(ThreadStep(r))
    /\ \A r \in 1..MaxThreads : \A i \in 1..MaxFiles : WF_vars(WorkerStep(r, i))

\* C17: every run that is started reaches line 506: it has logged one terminal
\* message by then, 'Embedding Completed' or 'stopped by the user', and logs no
\* other; embedding_in_progress is false from line 506 on until the next start,
\* and then start_embedding is not refused by line 395.  This is whether or not a
\* stop is requested and whatever the uploads meet.
C17_EveryRunEnds ==
    /\ embedding_in_progress ~> ~embedding_in_progress
    /\ [](\A r \in DOMAIN thr :
            /\ thr[r].pc \in {"fin506", "fin508", "exit"}
                  <=> thr[r].term.msg \in {"completed", "stopped"}
            /\ thr[r].term.msg \in {"none", "completed", "stopped"})
    /\ []((~embedding_in_progress /\ is_valid(app_config) /\ base_dir # ""
              /\ Len(thr) < MaxThreads)
            => ENABLED (/\ start_embedding({}, TRUE)
                        /\ embedding_in_progress'))
    /\ [][\A r \in DOMAIN thr \cap DOMAIN thr' :
            (thr[r].term.msg # "none" /\ Len(thr') >= Len(thr))
                => thr'[r].term.msg = thr[r].term.msg]_vars

\* a run that was stopped has ended and a second run is in progress
C17_Witness ==
    \E r, q \in DOMAIN thr :
        /\ thr[q].pc \in {"fin508", "exit"} /\ thr[q].term.msg = "stopped"
        /\ InRun(r) /\ embedding_in_progress

\* C18: in the run in progress, once a call of upload_file has been submitted or
\* the bar has been stepped, the walk is over (ended or left on a stop),
\* total_files is the number of files it found and the bar's maximum is total_files; all_files and total_files do not
\* change from the first submission on.
C18_TotalBeforeUploads ==
    /\ [](\A r \in DOMAIN thr :
            (InRun(r) /\ (thr[r].tasks # <<>> \/ thr[r].steps > 0))
                => /\ thr[r].pc \notin {"snap", "walk", "files", "setup"}
                   /\ thr[r].total_files = Len(thr[r].all_files)
                   /\ progress_bar.maximum = thr[r].total_files)
    /\ [][\A r \in DOMAIN thr \cap DOMAIN thr' :
            (thr[r].tasks # <<>> /\ InRun(r)')
                => /\ thr'[r].all_files = thr[r].all_files
                   /\ thr'[r].total_files = thr[r].total_files
                   /\ progress_bar'.maximum = progress_bar.maximum]_vars

\* the first step of a two-file run: the bar shows 1 of 2
C18_Witness ==
    \E r \in DOMAIN thr :
        /\ thr[r].pc = "style" /\ thr[r].steps = 1 /\ thr[r].total_files = 2
        /\ progress_bar.maximum = 2 /\ progress_bar.value = 1

\* C19: a run reports one terminal outcome and reports it consistently: when its
\* terminal dialog is shown, the dialog is 'Done' if the run's terminal log
\* message was 'Embedding Completed' and 'Stopped' if it was 'stopped by the
\* user', whenever stop_embedding and start_embedding happened.
C19_LogAndDialogAgree ==
    \A r \in DOMAIN thr :
        thr[r].pc = "exit"
            => /\ thr[r].term.msg \in {"completed", "stopped"}
               /\ thr[r].dialog \in {"Done", "Stopped"}
               /\ thr[r].term.msg = "completed" <=> thr[r].dialog = "Done"

\* C20: embed_files_cli uploads the files one at a time, in the order of
\* all_files: a file is taken only when the one before it has been counted.  Per
\* file exactly one of the two counters goes up by one, whichever files fail, so
\* the counters add up to the files dealt with, and to len(all_files) when the
\* loop has ended and the summary is logged.
C20_CliCountsEveryFile ==
    /\ [](LET t == thr[1]
          IN  /\ \A i \in DOMAIN t.tasks :
                    /\ t.tasks[i].fpath = t.all_files[i]
                    /\ i < Len(t.tasks) => t.tasks[i].st = "done"
              /\ Cardinality({i \in DOMAIN t.tasks : t.tasks[i].st # "done"}) <= 1
              /\ t.success_count
                    = Cardinality({i \in DOMAIN t.tasks : t.tasks[i].result = "success"})
              /\ t.fail_count
                    = Cardinality({i \in DOMAIN t.tasks : t.tasks[i].result = "fail"})
              /\ t.pc = "cli_done"
                    => /\ t.success_count + t.fail_count = Len(t.all_files)
                       /\ t.term.success = t.success_count
                       /\ t.term.fail = t.fail_count
                       /\ \A i \in DOMAIN t.tasks : Recorded(t.tasks[i]))
    /\ [][(thr[1].pc = "cli_count" /\ thr'[1].pc # "cli_count")
            => LET k == thr[1].tasks[Len(thr[1].tasks)]
                   ds == thr'[1].success_count - thr[1].success_count
                   df == thr'[1].fail_count - thr[1].fail_count
               IN  IF k.cause = "status_200" THEN ds = 1 /\ df = 0
                                            ELSE ds = 0 /\ df = 1]_vars

\* /e walked ignoring b: of the three files found the second failed, the others
\* were uploaded
C20_Witness ==
    /\ thr[1].pc = "cli_done" /\ thr[1].ignored_dirs = <<"b">>
    /\ Len(thr[1].all_files) = 3
    /\ thr[1].tasks[2].result = "fail"
    /\ thr[1].term.success = 2 /\ thr[1].term.fail = 1
====
